---- MODULE Spec2Model ----
(***************************************************************************)
(* Rainfall risk pipeline of app.py: add_rain_anomalies_all,               *)
(* label_risk_v3, build_features and get_recent_risk_for_pcode, with the   *)
(* pandas operations they call (sort_values, groupby.rolling, dropna,      *)
(* tail) modelled by what they compute.                                    *)
(*                                                                         *)
(* Numbers.  A float column value is an exact rational <<num, den>> with   *)
(* den > 0, and NaN is <<0, 0>>.  Rainfall is drawn from the integers, so  *)
(* every value the pipeline derives is a rational or the square root of    *)
(* one; rain_std holds the rational under the root (the sample variance),  *)
(* and z_score holds its numerator and the rain_std it is divided by.      *)
(* Floating-point rounding is not modelled.                                *)
(***************************************************************************)
EXTENDS Integers, Sequences, FiniteSets

VARIABLES
    pc,            \* position of the script: "loaded", "built", "viewed", ...
    df_all,        \* the loaded frame (line 12): rows [idx, PCODE, date, rfh]
    df_feat,       \* build_features(df_all) (line 95)
    pcode,         \* the PCODE selected in the UI (line 102)
    n_last,        \* the slider value (line 103)
    sub,           \* get_recent_risk_for_pcode(df_feat, pcode, n_last) (line 105)
    window,        \* arguments and result of a direct call of
    z_thresh,      \*   add_rain_anomalies_all(df_all, window=, z_thresh=)
    df_anom,
    df_other,      \* a second frame and its features, for comparing two runs
    df_feat_other,
    row,           \* argument and result of a direct call of label_risk_v3
    risk

vars == <<pc, df_all, df_feat, pcode, n_last, sub, window, z_thresh, df_anom,
          df_other, df_feat_other, row, risk>>

-----------------------------------------------------------------------------
(* Bounds of the model *)

MaxRows == 3        \* longest free-form input frame
MaxCmpRows == 2     \* longest free-form frame when two runs are compared
MaxDate == 2        \* dates of free-form rows are 1..MaxDate
MaxN == 3           \* n_last ranges over 0..MaxN

(* Program constants *)

DefaultWindow == 14
DefaultZThresh == 3
EpsDen == 1000      \* eps = 1e-3 = 1 / EpsDen
Sum3Window == 3
Sum7Window == 7
HighRain == 50
High3d == 130
High7d == 200
MedRain == 30
Med3d == 80
Med7d == 120

-----------------------------------------------------------------------------
(* Values *)

NaN == <<0, 0>>
IsNaN(x) == x[2] = 0
Num(v) == <<v, 1>>

\* the PCODEs of the model, in sort order; the last one never occurs in a frame
PCODES == <<"KE001", "KE002", "KE999">>
Rank(k) == CHOOSE i \in 1..Len(PCODES) : PCODES[i] = k
Keys == {"KE001", "KE002"}

Max(a, b) == IF a >= b THEN a ELSE b
Min(a, b) == IF a <= b THEN a ELSE b
Abs(a) == IF a >= 0 THEN a ELSE -a

RECURSIVE SumSeq(_)
SumSeq(s) == IF s = <<>> THEN 0 ELSE Head(s) + SumSeq(Tail(s))

-----------------------------------------------------------------------------
(* pandas: DataFrame.sort_values(["PCODE", "date"]).  A sort by more than   *)
(* one column goes through lexsort_indexer, which is stable.               *)

LexLeq(a, b) ==
    \/ Rank(a.PCODE) < Rank(b.PCODE)
    \/ a.PCODE = b.PCODE /\ a.date <= b.date

\* r inserted after every row that is <= r : equal keys keep their order
RECURSIVE InsertStable(_, _)
InsertStable(s, r) ==
    IF s = <<>> THEN <<r>>
    ELSE IF LexLeq(s[Len(s)], r) THEN Append(s, r)
    ELSE Append(InsertStable(SubSeq(s, 1, Len(s) - 1), r), s[Len(s)])

RECURSIVE SortPcodeDate(_)
SortPcodeDate(df) ==
    IF df = <<>> THEN <<>>
    ELSE InsertStable(SortPcodeDate(SubSeq(df, 1, Len(df) - 1)), df[Len(df)])

-----------------------------------------------------------------------------
(* pandas: df.groupby("PCODE")["rain_mm"].rolling(window, min_periods).     *)
(* The window of row i holds the rain_mm of the last `window` rows of the   *)
(* same PCODE up to and including row i; NaN entries stay in the window but *)
(* are not counted as observations.                                        *)

\* faulty variant: the rolling window taken over the whole frame, without groupby
GroupUpToAllKeys(df, i) == SubSeq(df, 1, i)

GroupUpTo(df, i) == SelectSeq(SubSeq(df, 1, i), LAMBDA r : r.PCODE = df[i].PCODE)

\* the rain_mm of the last w rows of g
LastRain(g, w) == [j \in 1..Min(w, Len(g)) |-> g[Len(g) - Min(w, Len(g)) + j].rain_mm]

RollingWindow(df, i, w) == LastRain(GroupUpTo(df, i), w)

\* the observations of a window, and their sum and sum of squares
Obs(win) == SelectSeq(win, LAMBDA x : ~IsNaN(x))
SumX(obs) == SumSeq([j \in 1..Len(obs) |-> obs[j][1]])
SumXX(obs) == SumSeq([j \in 1..Len(obs) |-> obs[j][1] * obs[j][1]])

\* .sum(): NaN below min_periods observations
SumOf(obs, minp) == IF Len(obs) >= minp /\ Len(obs) > 0 THEN Num(SumX(obs)) ELSE NaN
RollingSum(win, minp) == SumOf(Obs(win), minp)

\* .mean()
MeanOf(obs, minp) ==
    IF Len(obs) >= minp /\ Len(obs) > 0 THEN <<SumX(obs), Len(obs)>> ELSE NaN
RollingMean(win, minp) == MeanOf(Obs(win), minp)

\* n*Sxx - Sx^2 over n*(n-1)
Variance(n, sx, sxx) == <<n * sxx - sx * sx, n * (n - 1)>>

\* faulty variant: the sum of squares is not centred on the mean
StdOfUncentered(obs, minp) ==
    IF Len(obs) >= minp /\ Len(obs) > 1
    THEN <<Len(obs) * SumXX(obs), Len(obs) * (Len(obs) - 1)>>
    ELSE NaN

\* .std() with ddof = 1, as its square
StdOf(obs, minp) ==
    IF Len(obs) >= minp /\ Len(obs) > 1
    THEN Variance(Len(obs), SumX(obs), SumXX(obs))
    ELSE NaN
RollingStd(win, minp) == StdOf(Obs(win), minp)

-----------------------------------------------------------------------------
(* add_rain_anomalies_all *)

PyTrue == "True"
PyFalse == "False"
PyNaN == "NaN"       \* float('nan')
PyNone == "None"
PyBoolOf(b) == IF b THEN PyTrue ELSE PyFalse

\* faulty variant: min_periods = 1
MinPeriodsOne(w) == 1

\* min_periods = window // 2
MinPeriods(w) == w \div 2

\* a - b on floats, NaN if either is
Sub(a, b) ==
    IF IsNaN(a) \/ IsNaN(b) THEN NaN
    ELSE <<a[1] * b[2] - b[1] * a[2], a[2] * b[2]>>

\* (rain_mm - rain_mean) / (rain_std + eps), kept as numerator and rain_std
NaNZ == [num |-> NaN, std |-> NaN]
ZScore(x, mean, std) ==
    IF IsNaN(Sub(x, mean)) \/ IsNaN(std) THEN NaNZ
    ELSE [num |-> Sub(x, mean), std |-> std]
ZIsNaN(z) == IsNaN(z.num)

\* z.abs() > t, for t >= 0; False on NaN.  With z.num = p/q, z.std^2 = D/m,
\* e = EpsDen, a = |p|, b = t*q :
\*     a/q > t*(sqrt(D/m) + 1/e)
\* <=> e*a - b > 0  /\  (e*a - b)^2 * m > e^2 * t^2 * q^2 * D
\* <=> e*a - b > 0  /\  a^2*m - t^2*q^2*D > (b*m*(2*e*a - b)) / e^2
\* and the right-hand side is compared through its floor, computed stepwise
\* so that no intermediate product leaves the 32-bit range.
AbsGt(z, t) ==
    IF ZIsNaN(z) THEN FALSE
    ELSE LET a == Abs(z.num[1])
             q == z.num[2]
             D == z.std[1]
             m == z.std[2]
             b == t * q
             c == b * m
             X == a * a * m - t * t * q * q * D
             F == (2 * a * c + ((-(b * c)) \div EpsDen)) \div EpsDen
         IN  EpsDen * a - b > 0 /\ X > F

\* line 26: rain_mm = df[col]
WithRainMm(r) ==
    [idx |-> r.idx, PCODE |-> r.PCODE, date |-> r.date, rfh |-> r.rfh,
     rain_mm |-> r.rfh]

\* lines 42-43: z_score and is_anomaly of a row, given its rain_mean and rain_std
WithZ(r, mean, std, z, t) ==
    [idx |-> r.idx, PCODE |-> r.PCODE, date |-> r.date, rfh |-> r.rfh,
     rain_mm |-> r.rain_mm, rain_mean |-> mean, rain_std |-> std, z_score |-> z,
     is_anomaly |-> PyBoolOf(AbsGt(z, t))]
WithStats(r, mean, std, t) == WithZ(r, mean, std, ZScore(r.rain_mm, mean, std), t)

\* lines 28-39: rain_mean and rain_std of a row from its window
Annot(r, win, minp, t) ==
    WithStats(r, RollingMean(win, minp), RollingStd(win, minp), t)
AnnotAll(d, w, t) ==
    [i \in 1..Len(d) |-> Annot(d[i], RollingWindow(d, i, w), MinPeriods(w), t)]

RainMmAll(df) == [i \in 1..Len(df) |-> WithRainMm(df[i])]

add_rain_anomalies_all(df, w, t) == AnnotAll(RainMmAll(SortPcodeDate(df)), w, t)

-----------------------------------------------------------------------------
(* label_risk_v3 *)

\* bool(x): a NaN float is non-zero, hence true; None is false
PyBool(x) ==
    CASE x = PyTrue -> TRUE
      [] x = PyFalse -> FALSE
      [] x = PyNaN -> TRUE
      [] x = PyNone -> FALSE

\* faulty variant: x > c
GeStrict(x, c) == ~IsNaN(x) /\ x[1] > c * x[2]

\* x >= c on floats: False when x is NaN
Ge(x, c) == ~IsNaN(x) /\ x[1] >= c * x[2]

\* faulty variant: the high tier needs an anomaly
HighRiskAnomalyOnly(is_anom, r1, r3, r7) == is_anom /\ Ge(r1, HighRain)

HighRisk(is_anom, r1, r3, r7) ==
    (is_anom /\ Ge(r1, HighRain)) \/ Ge(r3, High3d) \/ Ge(r7, High7d)

MediumRisk(is_anom, r1, r3, r7) ==
    is_anom \/ Ge(r1, MedRain) \/ Ge(r3, Med3d) \/ Ge(r7, Med7d)

label_risk_v3(r) ==
    LET r1 == r.rain_mm
        r3 == r.rain_3d
        r7 == r.rain_7d
        is_anom == PyBool(r.is_anomaly)
    IN  IF HighRisk(is_anom, r1, r3, r7) THEN 2
        ELSE IF MediumRisk(is_anom, r1, r3, r7) THEN 1
        ELSE 0

-----------------------------------------------------------------------------
(* build_features *)

\* faulty variant: rolling(window=3).sum(), where min_periods defaults to the window
Rain3dDefaultMinPeriods(df, i) ==
    RollingSum(RollingWindow(df, i, Sum3Window), Sum3Window)

\* rolling(window=3, min_periods=1).sum() and rolling(window=7, min_periods=1).sum()
Rain3d(df, i) == RollingSum(RollingWindow(df, i, Sum3Window), 1)
Rain7d(df, i) == RollingSum(RollingWindow(df, i, Sum7Window), 1)

\* lines 71-81
WithSums(r, r3, r7) ==
    [idx |-> r.idx, PCODE |-> r.PCODE, date |-> r.date, rfh |-> r.rfh,
     rain_mm |-> r.rain_mm, rain_mean |-> r.rain_mean, rain_std |-> r.rain_std,
     z_score |-> r.z_score, is_anomaly |-> r.is_anomaly,
     rain_3d |-> r3, rain_7d |-> r7]
SumsAll(a) == [i \in 1..Len(a) |-> WithSums(a[i], Rain3d(a, i), Rain7d(a, i))]

\* line 83: df_feat.apply(label_risk_v3, axis=1)
WithRisk(r) ==
    [idx |-> r.idx, PCODE |-> r.PCODE, date |-> r.date, rfh |-> r.rfh,
     rain_mm |-> r.rain_mm, rain_mean |-> r.rain_mean, rain_std |-> r.rain_std,
     z_score |-> r.z_score, is_anomaly |-> r.is_anomaly,
     rain_3d |-> r.rain_3d, rain_7d |-> r.rain_7d,
     risk_level_v3 |-> label_risk_v3(r)]

RiskAll(df) == [i \in 1..Len(df) |-> WithRisk(df[i])]

build_features(df) ==
    RiskAll(SumsAll(SortPcodeDate(
        add_rain_anomalies_all(df, DefaultWindow, DefaultZThresh))))

-----------------------------------------------------------------------------
(* get_recent_risk_for_pcode *)

\* df_feat[df_feat["PCODE"] == pcode]
FilterPcode(df, p) == SelectSeq(df, LAMBDA r : r.PCODE = p)

Perms(s) ==
    {p \in [1..Len(s) -> 1..Len(s)] : \A i, j \in 1..Len(s) : i # j => p[i] # p[j]}

\* sort_values("date"): a sort by one column uses kind="quicksort", which is not
\* stable, so rows of equal date come out in any order.
RECURSIVE SortDate(_)
SortDate(s) ==
    IF s = <<>> THEN {<<>>}
    ELSE LET d == CHOOSE x \in {s[i].date : i \in 1..Len(s)} :
                      \A i \in 1..Len(s) : x <= s[i].date
             first == SelectSeq(s, LAMBDA r : r.date = d)
             rest == SelectSeq(s, LAMBDA r : r.date # d)
         IN  {[i \in 1..Len(first) |-> first[p[i]]] \o t :
                  p \in Perms(first), t \in SortDate(rest)}

\* faulty variant: dropna(subset=["rain_3d", "rain_7d"])
DropNaSumsOnly(s) ==
    SelectSeq(s, LAMBDA r : ~IsNaN(r.rain_3d) /\ ~IsNaN(r.rain_7d))

\* dropna(subset=["rain_mm", "rain_3d", "rain_7d"])
DropNa(s) ==
    SelectSeq(s, LAMBDA r : ~IsNaN(r.rain_mm) /\ ~IsNaN(r.rain_3d) /\ ~IsNaN(r.rain_7d))

\* faulty variant: head(n)
HeadN(s, n) == SubSeq(s, 1, Min(n, Len(s)))

\* tail(n) = iloc[-n:], and the empty frame for n = 0
TailN(s, n) ==
    IF n = 0 THEN <<>> ELSE SubSeq(s, Max(1, Len(s) - n + 1), Len(s))

\* the frames the call can return
get_recent_risk_for_pcode(df, p, n) ==
    {TailN(DropNa(s), n) : s \in SortDate(FilterPcode(df, p))}

-----------------------------------------------------------------------------
(* Inputs *)

RainValues == {NaN, Num(10), Num(60)}

\* the index of a frame read by read_csv is 0, 1, 2, ...
WithIdx(s) ==
    [i \in 1..Len(s) |->
        [idx |-> i - 1, PCODE |-> s[i].PCODE, date |-> s[i].date, rfh |-> s[i].rfh]]

\* every frame of 1..len rows: any order, repeated dates, missing rfh.  (A file
\* without rows is left out: what pandas does with an empty frame in apply and
\* groupby.rolling is not a matter of this code.)
FreeRows == [PCODE : Keys, date : 1..MaxDate, rfh : RainValues]
FramesUpTo(len) == {WithIdx(s) : s \in UNION {[1..n -> FreeRows] : n \in 1..len}}
FreeInputs == FramesUpTo(MaxRows)

\* one PCODE, one row a day, rainfall `base` except `peak` on day `day`
DailySeries(k, len, day, base, peak) ==
    [i \in 1..len |->
        [idx |-> i - 1, PCODE |-> k, date |-> i,
         rfh |-> Num(IF i = day THEN peak ELSE base)]]
SeriesOfLen(lens) ==
    {DailySeries(k, len, day, base, peak) :
        k \in Keys, len \in lens, day \in 1..30, base \in {5, 10},
        peak \in {5, 10, 200}}
SeriesInputs == SeriesOfLen({8, 20, 30})

Inputs == FreeInputs \cup SeriesInputs

Idle ==
    /\ df_feat = <<>> /\ pcode = "" /\ n_last = 0 /\ sub = <<>>
    /\ window = 0 /\ z_thresh = 0 /\ df_anom = <<>>
    /\ df_other = <<>> /\ df_feat_other = <<>>
    /\ row = [rain_mm |-> NaN, rain_3d |-> NaN, rain_7d |-> NaN, is_anomaly |-> PyNone]
    /\ risk = -1

-----------------------------------------------------------------------------
(* The script: load (line 12), build_features (line 95), the view (line 105). *)
(* Streamlit runs the script again from the top on every interaction.        *)

Init == pc = "loaded" /\ df_all \in Inputs /\ Idle

BuildFeatures ==
    /\ pc = "loaded"
    /\ df_feat' = build_features(df_all)
    /\ pc' = "built"
    /\ UNCHANGED <<df_all, pcode, n_last, sub, window, z_thresh, df_anom,
                   df_other, df_feat_other, row, risk>>

Query ==
    /\ pc = "built"
    /\ \E p \in {PCODES[i] : i \in 1..Len(PCODES)}, n \in 0..MaxN :
         \E out \in get_recent_risk_for_pcode(df_feat, p, n) :
            /\ pcode' = p
            /\ n_last' = n
            /\ sub' = out
    /\ pc' = "viewed"
    /\ UNCHANGED <<df_all, df_feat, window, z_thresh, df_anom,
                   df_other, df_feat_other, row, risk>>

Rerun ==
    /\ pc = "viewed"
    /\ pc' = "loaded"
    /\ df_feat' = <<>> /\ pcode' = "" /\ n_last' = 0 /\ sub' = <<>>
    /\ UNCHANGED <<df_all, window, z_thresh, df_anom, df_other, df_feat_other,
                   row, risk>>

Next == BuildFeatures \/ Query \/ Rerun

Spec == Init /\ [][Next]_vars

-----------------------------------------------------------------------------
(* add_rain_anomalies_all called directly, with any window and z_thresh *)

Windows == {1, 2, 3, 4, 5, 6, 14}
ZThresholds == {1, 3}

Annotate ==
    /\ pc = "loaded"
    /\ \E w \in Windows, t \in ZThresholds :
         /\ window' = w
         /\ z_thresh' = t
         /\ df_anom' = add_rain_anomalies_all(df_all, w, t)
    /\ pc' = "annotated"
    /\ UNCHANGED <<df_all, df_feat, pcode, n_last, sub, df_other, df_feat_other,
                   row, risk>>

NextAnnotate == Annotate

SpecAnnotate == Init /\ [][NextAnnotate]_vars

-----------------------------------------------------------------------------
(* build_features run on two frames that hold the same rows for one PCODE  *)

\* rows of the other PCODEs that the second frame may hold
OtherRows(k) == [PCODE : Keys \ {k}, date : 1..MaxDate, rfh : RainValues]

InsertAt(df, j, r) == SubSeq(df, 1, j) \o <<r>> \o SubSeq(df, j + 1, Len(df))
ReplaceAt(df, i, r) == [df EXCEPT ![i] = r]

\* df with the rows of the PCODEs other than k removed, or one of them
\* replaced, or one more added anywhere
Others(df, k) ==
    ({WithIdx(FilterPcode(df, k))} \ {<<>>})
    \cup {WithIdx(InsertAt(df, j, r)) : j \in 0..Len(df), r \in OtherRows(k)}
    \cup {WithIdx(ReplaceAt(df, i, r)) :
             i \in {x \in 1..Len(df) : df[x].PCODE # k}, r \in OtherRows(k)}

CmpInputs == FramesUpTo(MaxCmpRows) \cup SeriesOfLen({8})

InitCompare == pc = "loaded" /\ df_all \in CmpInputs /\ Idle

Compare ==
    /\ pc = "loaded"
    /\ \E k \in Keys : \E other \in Others(df_all, k) :
         /\ df_other' = other
         /\ df_feat_other' = build_features(other)
    /\ df_feat' = build_features(df_all)
    /\ pc' = "compared"
    /\ UNCHANGED <<df_all, pcode, n_last, sub, window, z_thresh, df_anom, row, risk>>

NextCompare == Compare

SpecCompare == InitCompare /\ [][NextCompare]_vars

-----------------------------------------------------------------------------
(* label_risk_v3 called directly on any row *)

Thresholds == {HighRain, High3d, High7d, MedRain, Med3d, Med7d}
Levels == {NaN, Num(0)} \cup {Num(c - 1) : c \in Thresholds} \cup {Num(c) : c \in Thresholds}
AnomalyValues == {PyTrue, PyFalse, PyNaN, PyNone}
ClassifierRows ==
    [rain_mm : Levels, rain_3d : Levels, rain_7d : Levels, is_anomaly : AnomalyValues]

InitClassify ==
    /\ pc = "classify" /\ row \in ClassifierRows /\ risk = -1
    /\ df_all = <<>> /\ df_feat = <<>> /\ pcode = "" /\ n_last = 0 /\ sub = <<>>
    /\ window = 0 /\ z_thresh = 0 /\ df_anom = <<>>
    /\ df_other = <<>> /\ df_feat_other = <<>>

Classify ==
    /\ pc = "classify"
    /\ risk' = label_risk_v3(row)
    /\ pc' = "classified"
    /\ UNCHANGED <<df_all, df_feat, pcode, n_last, sub, window, z_thresh, df_anom,
                   df_other, df_feat_other, row>>

NextClassify == Classify

SpecClassify == InitClassify /\ [][NextClassify]_vars

-----------------------------------------------------------------------------
(* Properties *)

Built == pc \in {"built", "viewed"}
Present(x) == x[2] # 0
\* x >= c for a float x and an integer c; no comparison holds of NaN
AtLeast(x, c) == x[2] # 0 /\ x[1] >= c * x[2]
RowsOf(df, k) == SelectSeq(df, LAMBDA r : r.PCODE = k)
RECURSIVE Total(_, _, _)
Total(g, lo, hi) == IF lo > hi THEN 0 ELSE g[hi].rfh[1] + Total(g, lo, hi - 1)
AllPresent(g, lo, hi) == \A j \in lo..hi : Present(g[j].rfh)
First(i, back) == IF i - back >= 1 THEN i - back ELSE 1

\* C1: label_risk_v3 returns 2 if (is_anomaly and rain_mm >= 50) or rain_3d >= 130
\* or rain_7d >= 200; otherwise 1 if is_anomaly or rain_mm >= 30 or rain_3d >= 80
\* or rain_7d >= 120; otherwise 0.  The comparisons are inclusive and the first
\* matching tier wins.
C1_Tiers ==
    (pc = "classified" /\ row.is_anomaly \in {PyTrue, PyFalse}) =>
        LET an == row.is_anomaly = PyTrue
            high == \/ an /\ AtLeast(row.rain_mm, 50)
                    \/ AtLeast(row.rain_3d, 130)
                    \/ AtLeast(row.rain_7d, 200)
            med == \/ an
                   \/ AtLeast(row.rain_mm, 30)
                   \/ AtLeast(row.rain_3d, 80)
                   \/ AtLeast(row.rain_7d, 120)
        IN  /\ risk \in {0, 1, 2}
            /\ risk = 2 <=> high
            /\ risk = 1 <=> (~high /\ med)
            /\ risk = 0 <=> (~high /\ ~med)

\* a row that is medium only because rain_mm is exactly 30
C1_Witness ==
    /\ pc = "classified" /\ risk = 1
    /\ row.is_anomaly = PyFalse
    /\ row.rain_mm = <<30, 1>> /\ row.rain_3d = <<79, 1>> /\ row.rain_7d = <<119, 1>>

\* C2: a row whose is_anomaly is NaN or None is classified as the same row with
\* is_anomaly = False.
C2_NullIsFalse ==
    (pc = "classified" /\ row.is_anomaly \in {PyNaN, PyNone}) =>
        LET asFalse == [rain_mm |-> row.rain_mm, rain_3d |-> row.rain_3d,
                        rain_7d |-> row.rain_7d, is_anomaly |-> PyFalse]
        IN  risk = label_risk_v3(asFalse)

\* C3: in the output of build_features, at position i of a key's rows rain_3d is
\* the sum of the rainfall of that key's rows max(1,i-2)..i and rain_7d the sum
\* over max(1,i-6)..i, from the first row on (where those rows have a rainfall).
C3_RollingSums ==
    Built =>
        \A k \in Keys :
            LET g == RowsOf(df_feat, k)
            IN  \A i \in 1..Len(g) :
                    /\ (i > 1 => g[i - 1].date <= g[i].date)
                    /\ AllPresent(g, First(i, 2), i) =>
                           g[i].rain_3d = <<Total(g, First(i, 2), i), 1>>
                    /\ AllPresent(g, First(i, 6), i) =>
                           g[i].rain_7d = <<Total(g, First(i, 6), i), 1>>

\* a key with more than seven rows whose 3-row, 7-row and full sums all differ
C3_Witness ==
    /\ pc = "built"
    /\ \E k \in Keys :
           LET g == RowsOf(df_feat, k)
           IN  /\ Len(g) >= 8
               /\ g[8].rain_3d = <<Total(g, 6, 8), 1>>
               /\ g[8].rain_7d = <<Total(g, 2, 8), 1>>
               /\ Total(g, 6, 8) < Total(g, 2, 8)
               /\ Total(g, 2, 8) < Total(g, 1, 8)
               /\ g[1].rain_3d = g[1].rfh
               /\ g[2].rain_3d = <<Total(g, 1, 2), 1>>

\* the columns build_features derives, and the ones they are derived from
Derived(r) ==
    [date |-> r.date, rain_mm |-> r.rain_mm, rain_mean |-> r.rain_mean,
     rain_std |-> r.rain_std, z_score |-> r.z_score, is_anomaly |-> r.is_anomaly,
     rain_3d |-> r.rain_3d, rain_7d |-> r.rain_7d, risk_level_v3 |-> r.risk_level_v3]
Given(r) == [date |-> r.date, rfh |-> r.rfh]
DerivedOf(df) == [i \in 1..Len(df) |-> Derived(df[i])]
GivenOf(df) == [i \in 1..Len(df) |-> Given(df[i])]
SameRowsFor(k) == GivenOf(RowsOf(df_all, k)) = GivenOf(RowsOf(df_other, k))

\* C4: two frames with the same rows for key k, differing only in rows of other
\* keys, get the same rain_mean, rain_std, z_score, is_anomaly, rain_3d, rain_7d
\* and risk_level for every row of k.
C4_NoCrossKey ==
    pc = "compared" =>
        \A k \in Keys :
            SameRowsFor(k) =>
                DerivedOf(RowsOf(df_feat, k)) = DerivedOf(RowsOf(df_feat_other, k))

\* key k has rows in both frames, and one frame alone has rows of a key that
\* sorts before k
C4_Witness ==
    /\ pc = "compared"
    /\ \E k \in Keys :
          /\ SameRowsFor(k)
          /\ Len(RowsOf(df_feat, k)) >= 2
          /\ \E j \in 1..Len(df_feat_other) : Rank(df_feat_other[j].PCODE) < Rank(k)
          /\ \A j \in 1..Len(df_feat) : df_feat[j].PCODE = k

\* C5: the first window//2 - 1 rows of a key have undefined rain_mean and
\* rain_std and are never anomalies; a key with fewer than window//2 rows has
\* no anomaly.
C5_WarmUp ==
    pc = "annotated" =>
        \A k \in Keys :
            LET g == RowsOf(df_anom, k)
            IN  /\ \A i \in 1..Len(g) :
                       i <= (window \div 2) - 1 =>
                           /\ ~Present(g[i].rain_mean)
                           /\ ~Present(g[i].rain_std)
                           /\ g[i].is_anomaly # PyTrue
                /\ Len(g) < window \div 2 =>
                       \A i \in 1..Len(g) : g[i].is_anomaly # PyTrue

\* a key whose rows after the warm-up include an anomaly
C5_Witness ==
    /\ pc = "annotated"
    /\ window \div 2 >= 2
    /\ \E k \in Keys :
           LET g == RowsOf(df_anom, k)
           IN  /\ Len(g) > window \div 2
               /\ ~Present(g[1].rain_mean)
               /\ \E i \in 1..Len(g) : g[i].is_anomaly = PyTrue

\* rows of the selected PCODE whose rain_mm, rain_3d and rain_7d are all present
Complete(r) == Present(r.rain_mm) /\ Present(r.rain_3d) /\ Present(r.rain_7d)
ValidRows == {df_feat[i] : i \in {j \in 1..Len(df_feat) :
                  df_feat[j].PCODE = pcode /\ Complete(df_feat[j])}}
SubRows == {sub[i] : i \in 1..Len(sub)}

\* C6: the view returns exactly min(n, v) rows, v the number of rows of the key
\* with rain_mm, rain_3d and rain_7d all non-null: the latest by date, in
\* ascending date order, all of the requested key; all v rows when v < n, and
\* none for a key that is not in the dataset.
C6_ViewSize ==
    pc = "viewed" =>
        LET v == Cardinality(ValidRows)
        IN  /\ Len(sub) = (IF n_last <= v THEN n_last ELSE v)
            /\ Cardinality(SubRows) = Len(sub)
            /\ SubRows \subseteq ValidRows
            /\ \A i \in 1..Len(sub) : sub[i].PCODE = pcode
            /\ \A i \in 1..Len(sub) - 1 : sub[i].date <= sub[i + 1].date
            /\ \A r \in ValidRows \ SubRows : \A x \in SubRows : r.date <= x.date
            /\ (\A i \in 1..Len(df_all) : df_all[i].PCODE # pcode) => sub = <<>>

\* fewer valid rows than asked for, next to a row of the key that is dropped
C6_Witness ==
    /\ pc = "viewed"
    /\ Cardinality(ValidRows) \in 1..(n_last - 1)
    /\ Len(sub) = Cardinality(ValidRows)
    /\ \E i \in 1..Len(df_feat) : df_feat[i].PCODE = pcode /\ ~Complete(df_feat[i])

\* C7 as claimed: every row of the view has rain_mean, rain_std, rain_3d and
\* rain_7d non-null, so that rows of a key's warm-up period are excluded.
C7_CompleteFeatures ==
    pc = "viewed" =>
        \A i \in 1..Len(sub) :
            /\ Present(sub[i].rain_mean) /\ Present(sub[i].rain_std)
            /\ Present(sub[i].rain_3d) /\ Present(sub[i].rain_7d)

\* C7 as amended: every row of the view has rain_mm, rain_3d and rain_7d
\* non-null (rain_mean and rain_std may be null: warm-up rows are returned).
C7_SumsPresent ==
    pc = "viewed" =>
        \A i \in 1..Len(sub) :
            Present(sub[i].rain_mm) /\ Present(sub[i].rain_3d) /\ Present(sub[i].rain_7d)

\* the view returns a warm-up row and leaves out a row without rainfall
C7_Witness ==
    /\ pc = "viewed"
    /\ \E i \in 1..Len(sub) : ~Present(sub[i].rain_mean) /\ ~Present(sub[i].rain_std)
    /\ \E i \in 1..Len(df_feat) :
           /\ df_feat[i].PCODE = pcode /\ ~Present(df_feat[i].rain_mm)
           /\ Present(df_feat[i].rain_3d)
    /\ n_last > Len(sub)

\* one key, 20 daily rows, rainfall 10 except 200 on day 15
IsSpike(df) ==
    /\ Len(df) = 20
    /\ \A i \in 1..Len(df) :
          /\ df[i].PCODE = df[1].PCODE
          /\ df[i].date = i
          /\ df[i].rfh = <<(IF i = 15 THEN 200 ELSE 10), 1>>

\* C8: in the spike scenario rain_3d = 220 and rain_7d >= 200 on day 15, and
\* risk_level is 2 there whatever is_anomaly is.
C8_Spike ==
    (Built /\ IsSpike(df_all)) =>
        /\ Len(df_feat) = 20
        /\ \A i \in 1..Len(df_feat) :
              df_feat[i].date = 15 =>
                  /\ df_feat[i].rain_3d = <<220, 1>>
                  /\ AtLeast(df_feat[i].rain_7d, 200)
                  /\ df_feat[i].risk_level_v3 = 2
                  /\ \A a \in AnomalyValues :
                         label_risk_v3([rain_mm |-> df_feat[i].rain_mm,
                                        rain_3d |-> df_feat[i].rain_3d,
                                        rain_7d |-> df_feat[i].rain_7d,
                                        is_anomaly |-> a]) = 2

C8_Witness ==
    /\ pc = "built" /\ IsSpike(df_all)
    /\ df_feat[15].date = 15 /\ df_feat[15].rain_mm = <<200, 1>>
    /\ df_feat[15].rain_7d = <<260, 1>>
    /\ df_feat[15].is_anomaly = PyTrue

\* one key, 30 daily rows of rainfall 5
IsFlat(df) ==
    /\ Len(df) = 30
    /\ \A i \in 1..Len(df) :
          df[i].PCODE = df[1].PCODE /\ df[i].date = i /\ df[i].rfh = <<5, 1>>

\* C9: in the flat scenario every row with a defined window has rain_std = 0
\* and z_score = 0, and every row has is_anomaly false and risk_level 0.
C9_Flat ==
    (Built /\ IsFlat(df_all)) =>
        /\ Len(df_feat) = 30
        /\ \A i \in 1..Len(df_feat) :
              /\ i >= 7 => Present(df_feat[i].rain_std)
              /\ Present(df_feat[i].rain_std) =>
                     /\ df_feat[i].rain_std[1] = 0
                     /\ Present(df_feat[i].z_score.num)
                     /\ df_feat[i].z_score.num[1] = 0
                     /\ df_feat[i].z_score.std = df_feat[i].rain_std
              /\ df_feat[i].is_anomaly = PyFalse
              /\ df_feat[i].risk_level_v3 = 0

C9_Witness ==
    /\ pc = "built" /\ IsFlat(df_all)
    /\ ~Present(df_feat[6].rain_std)
    /\ df_feat[30].rain_mean = <<70, 14>>
    /\ df_feat[30].rain_3d = <<15, 1>> /\ df_feat[30].rain_7d = <<35, 1>>

\* C10: every sort is stable: two rows of one key with the same date keep their
\* input order in the output of build_features and in the view.
C10_StableSorts ==
    /\ Built =>
          \A i, j \in 1..Len(df_feat) :
              (i < j /\ df_feat[i].PCODE = df_feat[j].PCODE
                     /\ df_feat[i].date = df_feat[j].date)
                  => df_feat[i].idx < df_feat[j].idx
    /\ pc = "viewed" =>
          \A i, j \in 1..Len(sub) :
              (i < j /\ sub[i].date = sub[j].date) => sub[i].idx < sub[j].idx

\* the part of C10 that is about build_features alone
C10_PipelineStable ==
    Built =>
        \A i, j \in 1..Len(df_feat) :
            (i < j /\ df_feat[i].PCODE = df_feat[j].PCODE
                   /\ df_feat[i].date = df_feat[j].date)
                => df_feat[i].idx < df_feat[j].idx

====
